---- MODULE Spec2Model ----
(***************************************************************************)
(* Model of fffuzz (src/main.c): a demux/decode harness.  One sequential   *)
(* process: main() checks argc, then runs the pipeline once (or, in an     *)
(* AFL persistent-mode build, in a loop): set whitelists, find the forced  *)
(* demuxer, open the container, select and open a decoder                  *)
(* (open_codec_context), open the destination file, allocate the raw image *)
(* and the frame, pump packets through decode_packet, flush, clean up.     *)
(* The multimedia library is an opaque collaborator: each call into it is  *)
(* a nondeterministic choice over the results its interface allows.        *)
(***************************************************************************)
EXTENDS Integers, Sequences, FiniteSets

\* ---------------------------------------------------------------- bounds
MaxStreams == 2
\* packets the container delivers before av_read_frame reports the end
MaxPkts == 2
\* largest size of a packet read from the container
MaxPktSize == 2
\* units a decoder produces (and the harness counts) in one iteration
MaxFrames == 2
\* largest frame width and height
MaxDim == 2
\* largest nb_samples of an audio frame, and num_rects of a subtitle
MaxSamples == 1
\* iterations of the persistent-mode loop explored (the code allows 1000)
MaxIter == 2

\* ------------------------------------------------------------- constants
\* the null pointer of the char* arguments (format, codec)
NULL == "NULL"
AV_PIX_FMT_NONE == "none"

CodecIds == {"V", "A", "S"}
PixFmts == {"gray8", "rgb24"}
SampleFmts == {"u8", "s16"}
Dims == 1..MaxDim
\* __AFL_LOOP(1000)
AflLoopCount == 1000

\* values of argv[4] (codec) and argv[3] (format) when argc = 5; NULL when argc = 3
CodecArgs == {"vid", "aud", "bogus", "aud,vid"}
FormatArgs == {"matroska", "nosuchformat"}

\* codec_type of a stream's decoding context, fixed by its codec identifier
TypeOf(id) == CASE id = "V" -> "video" [] id = "A" -> "audio" [] id = "S" -> "subtitle"

\* the decoders the library registers (av_register_all): name and identifier
Decoders == { [name |-> "vid", id |-> "V"], [name |-> "aud", id |-> "A"],
              [name |-> "sub", id |-> "S"] }
NoDec == [name |-> "", id |-> ""]

\* a decoding context (AVCodecContext) as far as main reads it; NoCtx is NULL
NoCtx == [codec_id |-> "", codec_type |-> ""]
CtxOf(id) == [codec_id |-> id, codec_type |-> TypeOf(id)]

\* avcodec_find_decoder_by_name: the decoder of exactly that name, or none;
\* a NULL name and a name that is a list of names find nothing
avcodec_find_decoder_by_name(name) ==
    IF \E d \in Decoders : d.name = name
    THEN CHOOSE d \in Decoders : d.name = name
    ELSE NoDec

\* avcodec_find_decoder: the decoder for a codec identifier
avcodec_find_decoder(id) == CHOOSE d \in Decoders : d.id = id

\* the names a codec_whitelist string lists (comma separated)
WhitelistNames(codec) ==
    CASE codec = "vid" -> {"vid"}
      [] codec = "aud" -> {"aud"}
      [] codec = "aud,vid" -> {"aud", "vid"}
      [] codec = "bogus" -> {"bogus"}

\* avcodec_open2 refuses a decoder that the codec_whitelist option excludes;
\* a NULL value sets no whitelist
WhitelistAllows(codec, dec) ==
    codec = NULL \/ dec.name \in WhitelistNames(codec)

\* size in bytes of one tightly packed image (av_image_alloc with align 1)
BytesPerPixel(fmt) == IF fmt = "gray8" THEN 1 ELSE 3
ImageSize(w, h, fmt) == w * h * BytesPerPixel(fmt)

FFMIN(a, b) == IF a > b THEN b ELSE a

VARIABLES
    pc,                \* position of main()
    iter,              \* iterations of the outer loop started
    argc,
    argv,              \* << argv[3], argv[4] >> when argc = 5
    format, codec,
    ret,               \* main's ret
    exitStatus,        \* process exit status once pc = "exited", else -1
    usagePrinted,
    fmt_open,          \* fmt_ctx # NULL
    dec_ctx,           \* NoCtx (NULL) or the selected stream's decoding context
    dec_open,          \* avcodec_open2 succeeded on dec_ctx and it is not closed
    dst_open,          \* dst_file # NULL and not yet closed
    frame_alloc,       \* frame # NULL and not yet freed
    frame_held,        \* frame references a decoded unit
    img_alloc,         \* video_dst_data[0] allocated and not yet freed
    width, height, pix_fmt, video_dst_bufsize,
    pkt,               \* [buf, off, size]: data # NULL, bytes advanced, size
    got_frame, frame_count,
    decoded,           \* the pump's local: last return of decode_packet
    written,           \* bytes handed to fwrite/fprintf on dst_file
    hist               \* observations for the properties (not program state)

vars == << pc, iter, argc, argv, format, codec, ret, exitStatus, usagePrinted,
           fmt_open, dec_ctx, dec_open, dst_open,
           frame_alloc, frame_held, img_alloc, width, height, pix_fmt,
           video_dst_bufsize, pkt, got_frame, frame_count, decoded, written,
           hist >>

args == << argc, argv, format, codec >>
geometry == << width, height, pix_fmt, video_dst_bufsize >>
resources == << fmt_open, dec_ctx, dec_open, dst_open,
                frame_alloc, frame_held, img_alloc >>
pump == << pkt, got_frame, frame_count, decoded, written >>

EmptyPkt == [buf |-> FALSE, off |-> 0, size |-> 0]

\* observations, reset at the top of every iteration
HistInit ==
    [ setupErr   |-> "none",   \* which setup step failed in this iteration
      selResult  |-> "none",   \* outcome of open_codec_context
      inputOpened |-> FALSE,   \* avformat_open_input succeeded
      decOpened  |-> FALSE,    \* avcodec_open2 succeeded
      dstTouched |-> FALSE,    \* fopen(dst, "wb") created/truncated the file
      selIn      |-> << >>,    \* the stream table open_codec_context scanned
      selIdx     |-> 0,        \* the index of the stream it selected, 0 if none
      pktNo      |-> 0,        \* packets read from the container
      failedPkt  |-> 0,        \* the latest packet on which decode_packet returned < 0
      eof        |-> FALSE,    \* av_read_frame reported no more packets
      flushPhases |-> 0,       \* times lines 352-354 ran
      flushCalls |-> 0,        \* empty-packet calls, capped at 1
      flushIdle  |-> 0,        \* empty-packet calls that produced no unit
      flushNeg   |-> FALSE,    \* the latest empty-packet call returned < 0
      mismatch   |-> FALSE,    \* a produced video frame failed the geometry check
      last       |-> [size |-> 0, reported |-> 0] ]  \* the latest call on the
                \* current packet: pkt.size passed, byte count the decoder reported

Init ==
    /\ pc = "start"
    /\ iter = 0
    /\ argc \in 1..6
    /\ argv \in IF argc = 5 THEN FormatArgs \X CodecArgs ELSE {<< NULL, NULL >>}
    /\ format = NULL
    /\ codec = NULL
    /\ ret = 0
    /\ exitStatus = -1
    /\ usagePrinted = FALSE
    /\ fmt_open = FALSE
    /\ dec_ctx = NoCtx
    /\ dec_open = FALSE
    /\ dst_open = FALSE
    /\ frame_alloc = FALSE
    /\ frame_held = FALSE
    /\ img_alloc = FALSE
    /\ width = 0
    /\ height = 0
    /\ pix_fmt = AV_PIX_FMT_NONE
    /\ video_dst_bufsize = 0
    /\ pkt = EmptyPkt
    /\ got_frame = 0
    /\ frame_count = 0
    /\ decoded = 0
    /\ written = 0
    /\ hist = HistInit

\* ------------------------------------------------------------ the library
\* a stream of the container: whether a decoding context is attached
\* (fmt_ctx->streams[i]->codec) and that context's codec identifier
StreamRecs == [hasCtx : BOOLEAN, codec_id : CodecIds]
StreamLists == UNION { [1..n -> StreamRecs] : n \in 0..MaxStreams }

NoUnit == [w |-> 0, h |-> 0, fmt |-> AV_PIX_FMT_NONE, nb_samples |-> 0,
           sample_fmt |-> "u8", num_rects |-> 0]

\* the geometry of a decoded video frame: that of the decoding context at
\* stream-open time (w, h, f), or one that changed mid-stream in width, in
\* height or in pixel format
FrameGeoms(w, h, f) ==
    { g \in Dims \X Dims \X PixFmts :
        Cardinality({k \in 1..3 : g[k] # << w, h, f >>[k]}) <= 1 }

\* what one avcodec_decode_video2 / _audio4 / _subtitle2 call on a packet of
\* pktsize bytes may report: a negative error and no unit, or a byte count
\* (0, part of the packet, all of it, or one byte more than it holds) with
\* or without a produced unit.  A decoder produces at most MaxFrames counted
\* units in an iteration.
LibOutcomes(codec_type, fc, pktsize) ==
    { [ret |-> -22, got |-> FALSE, unit |-> NoUnit] }
    \cup { [ret |-> r, got |-> FALSE, unit |-> NoUnit] : r \in 0..(pktsize + 1) }
    \cup IF fc >= MaxFrames THEN {}
         ELSE CASE codec_type = "video" ->
                   { [ret |-> r, got |-> TRUE,
                      unit |-> [NoUnit EXCEPT !.w = g[1], !.h = g[2], !.fmt = g[3]]] :
                        r \in 0..(pktsize + 1), g \in FrameGeoms(width, height, pix_fmt) }
                [] codec_type = "audio" ->
                   { [ret |-> r, got |-> TRUE,
                      unit |-> [NoUnit EXCEPT !.nb_samples = a[1], !.sample_fmt = a[2]]] :
                        r \in 0..(pktsize + 1), a \in (0..MaxSamples) \X SampleFmts }
                [] OTHER ->
                   { [ret |-> r, got |-> TRUE,
                      unit |-> [NoUnit EXCEPT !.num_rects = n]] :
                        r \in 0..(pktsize + 1), n \in 0..MaxSamples }

av_get_bytes_per_sample(fmt) == IF fmt = "u8" THEN 1 ELSE 2

\* ---------------------------------------------------------- decode_packet
\* One call of decode_packet: lib is what the library's decode call reports,
\* pktsize is pkt->size, fc and wr are *frame_count and the bytes written so
\* far, held says whether frame references a unit on entry.  The result is
\* the return value, *got_frame, the new counter and byte count, whether
\* frame still references a unit on return, and whether a produced video
\* frame passed the geometry check.

\* a variant of the video branch that counts the frame before the geometry check
decode_video_counts_first(lib, fc, wr) ==
    IF lib.ret < 0 THEN
        [ret |-> lib.ret, got |-> lib.got, fc |-> fc, wr |-> wr,
         held |-> lib.got, match |-> TRUE]
    ELSE IF lib.got THEN
        IF lib.unit.w # width \/ lib.unit.h # height \/ lib.unit.fmt # pix_fmt THEN
            [ret |-> -1, got |-> TRUE, fc |-> fc + 1, wr |-> wr,
             held |-> TRUE, match |-> FALSE]
        ELSE
            [ret |-> lib.ret, got |-> TRUE, fc |-> fc + 1,
             wr |-> wr + video_dst_bufsize, held |-> FALSE, match |-> TRUE]
    ELSE
        [ret |-> lib.ret, got |-> FALSE, fc |-> fc, wr |-> wr,
         held |-> FALSE, match |-> TRUE]

\* the video branch, lines 52-87 and 164-168
decode_video(lib, fc, wr) ==
    IF lib.ret < 0 THEN
        [ret |-> lib.ret, got |-> lib.got, fc |-> fc, wr |-> wr,
         held |-> lib.got, match |-> TRUE]
    ELSE IF lib.got THEN
        IF lib.unit.w # width \/ lib.unit.h # height \/ lib.unit.fmt # pix_fmt THEN
            \* return -1 at line 71: av_frame_unref at line 166 is not reached
            [ret |-> -1, got |-> TRUE, fc |-> fc, wr |-> wr,
             held |-> TRUE, match |-> FALSE]
        ELSE
            [ret |-> lib.ret, got |-> TRUE, fc |-> fc + 1,
             wr |-> wr + video_dst_bufsize, held |-> FALSE, match |-> TRUE]
    ELSE
        [ret |-> lib.ret, got |-> FALSE, fc |-> fc, wr |-> wr,
         held |-> FALSE, match |-> TRUE]

\* a variant of the audio branch without the clamp of line 100
decode_audio_unclamped(lib, pktsize, fc, wr) ==
    IF lib.ret < 0 THEN
        [ret |-> lib.ret, got |-> lib.got, fc |-> fc, wr |-> wr,
         held |-> lib.got, match |-> TRUE]
    ELSE IF lib.got THEN
        [ret |-> lib.ret, got |-> TRUE, fc |-> fc + 1,
         wr |-> wr + lib.unit.nb_samples * av_get_bytes_per_sample(lib.unit.sample_fmt),
         held |-> FALSE, match |-> TRUE]
    ELSE
        [ret |-> lib.ret, got |-> FALSE, fc |-> fc, wr |-> wr,
         held |-> FALSE, match |-> TRUE]

\* the audio branch, lines 88-118 and 164-168
decode_audio(lib, pktsize, fc, wr) ==
    IF lib.ret < 0 THEN
        [ret |-> lib.ret, got |-> lib.got, fc |-> fc, wr |-> wr,
         held |-> lib.got, match |-> TRUE]
    ELSE IF lib.got THEN
        [ret |-> FFMIN(lib.ret, pktsize), got |-> TRUE, fc |-> fc + 1,
         wr |-> wr + lib.unit.nb_samples * av_get_bytes_per_sample(lib.unit.sample_fmt),
         held |-> FALSE, match |-> TRUE]
    ELSE
        [ret |-> FFMIN(lib.ret, pktsize), got |-> FALSE, fc |-> fc, wr |-> wr,
         held |-> FALSE, match |-> TRUE]

\* the subtitle branch, lines 119-168: the decoder fills sub, not frame; wr
\* counts the rectangle blocks printed
decode_subtitle(lib, fc, wr, held) ==
    IF lib.ret < 0 THEN
        [ret |-> lib.ret, got |-> lib.got, fc |-> fc, wr |-> wr,
         held |-> held, match |-> TRUE]
    ELSE IF lib.got THEN
        [ret |-> lib.ret, got |-> TRUE, fc |-> fc + 1,
         wr |-> wr + lib.unit.num_rects, held |-> FALSE, match |-> TRUE]
    ELSE
        [ret |-> lib.ret, got |-> FALSE, fc |-> fc, wr |-> wr,
         held |-> held, match |-> TRUE]

decode_packet(codec_type, pktsize, lib, fc, wr, held) ==
    IF codec_type = "video" THEN decode_video(lib, fc, wr)
    ELSE IF codec_type = "audio" THEN decode_audio(lib, pktsize, fc, wr)
    ELSE IF codec_type = "subtitle" THEN decode_subtitle(lib, fc, wr, held)
    ELSE \* ret = -1, *got_frame = 0 (lines 47-48)
        [ret |-> -1, got |-> FALSE, fc |-> fc, wr |-> wr, held |-> held,
         match |-> TRUE]

\* ----------------------------------------------------- open_codec_context
\* the scan of lines 178-186: the first index i >= from whose stream has a
\* decoding context and, when dec was found by name, dec's identifier; 0 if none
RECURSIVE ScanStreams(_, _, _)
ScanStreams(ss, dec, i) ==
    IF i > Len(ss) THEN 0
    ELSE IF ss[i].hasCtx /\ (dec = NoDec \/ ss[i].codec_id = dec.id) THEN i
    ELSE ScanStreams(ss, dec, i + 1)

\* open_codec_context on stream table ss with codec name codecName; haveDec:
\* avcodec_find_decoder finds a decoder for the stream's identifier; openOk:
\* avcodec_open2 succeeds when the whitelist allows the decoder
open_codec_context(ss, codecName, haveDec, openOk) ==
    LET byName == avcodec_find_decoder_by_name(codecName)
        i == ScanStreams(ss, byName, 1)
    IN  IF i = 0 THEN
            [ret |-> -1, dec_ctx |-> 0, opened |-> FALSE, result |-> "nostream"]
        ELSE
            LET dec == IF byName # NoDec THEN byName
                       ELSE IF haveDec THEN avcodec_find_decoder(ss[i].codec_id)
                       ELSE NoDec
            IN  IF dec = NoDec THEN
                    [ret |-> -1, dec_ctx |-> i, opened |-> FALSE, result |-> "nodecoder"]
                ELSE IF openOk /\ WhitelistAllows(codecName, dec) THEN
                    [ret |-> 0, dec_ctx |-> i, opened |-> TRUE, result |-> "ok"]
                ELSE
                    [ret |-> -22, dec_ctx |-> i, opened |-> FALSE, result |-> "openfail"]

\* ------------------------------------------------------------------- main
\* a variant that accepts any count of at least 3
ArgcOk_atleast3(n) == n >= 3

\* the argument counts main accepts (line 221)
ArgcOk(n) == n = 5 \/ n = 3

\* lines 221-234: usage error, or take the arguments
Start ==
    /\ pc = "start"
    /\ IF ~ArgcOk(argc)
       THEN /\ usagePrinted' = TRUE
            /\ exitStatus' = 1
            /\ pc' = "exited"
            /\ UNCHANGED << format, codec >>
       ELSE /\ format' = IF argc = 5 THEN argv[1] ELSE NULL
            /\ codec' = IF argc = 5 THEN argv[2] ELSE NULL
            /\ pc' = "loop"
            /\ UNCHANGED << usagePrinted, exitStatus >>
    /\ UNCHANGED << iter, argc, argv, ret, resources, geometry, pump, hist >>

\* the loop head (lines 242-245): the block runs once, or, in a
\* persistent-mode build, while __AFL_LOOP says so: at least once and at most
\* AflLoopCount times.  The build without the loop is the run of one iteration.
LoopContinues == iter < AflLoopCount /\ iter < MaxIter

\* lines 246-261: the iteration's locals and the globals are reset
IterBegin ==
    /\ pc = "loop"
    /\ LoopContinues
    /\ iter' = iter + 1
    /\ ret' = 0
    /\ fmt_open' = FALSE
    /\ dec_ctx' = NoCtx
    /\ dec_open' = FALSE
    /\ dst_open' = FALSE
    /\ frame_alloc' = FALSE
    /\ frame_held' = FALSE
    /\ img_alloc' = FALSE
    /\ width' = 0
    /\ height' = 0
    /\ pix_fmt' = AV_PIX_FMT_NONE
    /\ video_dst_bufsize' = 0
    /\ pkt' = EmptyPkt
    /\ got_frame' = 0
    /\ frame_count' = 0
    /\ decoded' = 0
    /\ written' = 0
    /\ hist' = HistInit
    /\ pc' = "whitelist"
    /\ UNCHANGED << args, exitStatus, usagePrinted >>

\* line 372: return ret
Exit ==
    /\ pc = "loop"
    /\ iter >= 1
    /\ exitStatus' = ret
    /\ pc' = "exited"
    /\ UNCHANGED << args, iter, ret, usagePrinted, resources, geometry, pump, hist >>

\* a setup step failed: ret = 1; goto end
SetupFails(what) ==
    /\ ret' = 1
    /\ hist' = [hist EXCEPT !.setupErr = what]
    /\ pc' = "end"

\* lines 263-273: the two whitelist options
SetWhitelist ==
    /\ pc = "whitelist"
    /\ \E ok \in BOOLEAN :
         IF ~ok THEN SetupFails("whitelist")
         ELSE /\ pc' = "find_format"
              /\ UNCHANGED << ret, hist >>
    /\ UNCHANGED << args, iter, exitStatus, usagePrinted, resources, geometry, pump >>

\* av_find_input_format: the demuxer of that name, if any
av_find_input_format(name) == name = "matroska"

\* lines 275-282: the forced demuxer
FindFormat ==
    /\ pc = "find_format"
    /\ IF format # NULL /\ ~av_find_input_format(format)
       THEN SetupFails("format")
       ELSE /\ pc' = "open_input"
            /\ UNCHANGED << ret, hist >>
    /\ UNCHANGED << args, iter, exitStatus, usagePrinted, resources, geometry, pump >>

\* lines 284-294: open the container; a failed avformat_find_stream_info is
\* only reported
OpenInput ==
    /\ pc = "open_input"
    /\ \E ok \in BOOLEAN :
         IF ~ok THEN /\ SetupFails("input")
                     /\ UNCHANGED fmt_open
         ELSE /\ fmt_open' = TRUE
              /\ hist' = [hist EXCEPT !.inputOpened = TRUE]
              /\ pc' = "open_codec"
              /\ UNCHANGED ret
    /\ UNCHANGED << args, iter, exitStatus, usagePrinted, dec_ctx, dec_open,
                    dst_open, frame_alloc, frame_held, img_alloc, geometry, pump >>

\* lines 296-302 on stream table ss: select the stream and open its decoder.
\* dec_ctx is assigned as soon as a stream is selected, also when the decoder
\* is then not found or not opened.  observe: record the selected index.
OpenCodecOn(ss, observe) ==
    /\ pc = "open_codec"
    /\ \E haveDec \in BOOLEAN, openOk \in BOOLEAN :
         LET r == open_codec_context(ss, codec, haveDec, openOk)
             h == [hist EXCEPT !.selResult = r.result,
                               !.selIdx = IF observe THEN r.dec_ctx ELSE 0]
         IN  /\ dec_ctx' = IF r.dec_ctx = 0 THEN NoCtx ELSE CtxOf(ss[r.dec_ctx].codec_id)
             /\ dec_open' = r.opened
             /\ IF r.ret < 0
                THEN /\ ret' = 1
                     /\ hist' = [h EXCEPT !.setupErr = "codec"]
                     /\ pc' = "end"
                ELSE /\ hist' = [h EXCEPT !.decOpened = TRUE]
                     /\ pc' = "open_dst"
                     /\ UNCHANGED ret
    /\ UNCHANGED << args, iter, exitStatus, usagePrinted, fmt_open, dst_open,
                    frame_alloc, frame_held, img_alloc, geometry, pump >>

\* the stream table is whatever the demuxer found in the input
OpenCodec == \E ss \in StreamLists : OpenCodecOn(ss, FALSE)

\* lines 304-310: fopen(dst_filename, "wb") creates or truncates the file
OpenDst ==
    /\ pc = "open_dst"
    /\ \E ok \in BOOLEAN :
         IF ~ok THEN /\ SetupFails("dst")
                     /\ UNCHANGED dst_open
         ELSE /\ dst_open' = TRUE
              /\ hist' = [hist EXCEPT !.dstTouched = TRUE]
              /\ pc' = "alloc_image"
              /\ UNCHANGED ret
    /\ UNCHANGED << args, iter, exitStatus, usagePrinted, fmt_open, dec_ctx,
                    dec_open, frame_alloc, frame_held, img_alloc, geometry, pump >>

\* av_image_alloc(..., w, h, fmt, 1): the packed size, or a negative error
av_image_alloc(w, h, fmt, ok) == IF ok THEN ImageSize(w, h, fmt) ELSE -12

\* lines 312-324: for video, capture the geometry and allocate the raw image
AllocImage ==
    /\ pc = "alloc_image"
    /\ IF dec_ctx.codec_type = "video"
       THEN \E w \in Dims, h \in Dims, f \in PixFmts, ok \in BOOLEAN :
              /\ width' = w
              /\ height' = h
              /\ pix_fmt' = f
              /\ video_dst_bufsize' = av_image_alloc(w, h, f, ok)
              /\ IF av_image_alloc(w, h, f, ok) < 0
                 THEN /\ SetupFails("image")
                      /\ UNCHANGED img_alloc
                 ELSE /\ img_alloc' = TRUE
                      /\ pc' = "alloc_frame"
                      /\ UNCHANGED << ret, hist >>
       ELSE /\ pc' = "alloc_frame"
            /\ UNCHANGED << geometry, img_alloc, ret, hist >>
    /\ UNCHANGED << args, iter, exitStatus, usagePrinted, fmt_open, dec_ctx,
                    dec_open, dst_open, frame_alloc, frame_held, pump >>

\* lines 329-335: av_frame_alloc
AllocFrame ==
    /\ pc = "alloc_frame"
    /\ \E ok \in BOOLEAN :
         IF ~ok THEN /\ SetupFails("frame")
                     /\ UNCHANGED frame_alloc
         ELSE /\ frame_alloc' = TRUE
              /\ pc' = "read"
              /\ UNCHANGED << ret, hist >>
    /\ UNCHANGED << args, iter, exitStatus, usagePrinted, fmt_open, dec_ctx,
                    dec_open, dst_open, frame_held, img_alloc, geometry, pump >>

\* line 340, and lines 352-354 when av_read_frame reports the end: the
\* container delivers the next packet (of any size, 0 included), or none
ReadFrame ==
    /\ pc = "read"
    /\ \E more \in BOOLEAN, size \in 0..MaxPktSize :
         IF more /\ hist.pktNo < MaxPkts
         THEN /\ pkt' = [buf |-> TRUE, off |-> 0, size |-> size]
              /\ hist' = [hist EXCEPT !.pktNo = @ + 1,
                                      !.last = [size |-> 0, reported |-> 0]]
              /\ pc' = "decode"
         ELSE /\ pkt' = EmptyPkt
              /\ hist' = [hist EXCEPT !.eof = TRUE, !.flushPhases = @ + 1]
              /\ pc' = "flush"
    /\ UNCHANGED << args, iter, ret, exitStatus, usagePrinted, resources, geometry,
                    got_frame, frame_count, decoded, written >>

\* a variant of the pump's loop test without the break on a negative return
PumpContinues_nobreak(r, size) == IF r < 0 THEN size > 0 ELSE size - r > 0

\* a variant of the flush loop's test that also stops on a negative return
FlushContinues_stops_on_error(got, r) == got /\ r >= 0

\* lines 343-348: the pump's do-while runs again unless decode_packet
\* returned < 0 (break) or the advanced packet has no bytes left
PumpContinues(r, size) == r >= 0 /\ size - r > 0

\* line 357: the flush loop runs again while got_frame; r, the return value
\* of the call, is dropped
FlushContinues(got, r) == got

\* lines 341-348: one pass of the do-while: decode_packet, break on a
\* negative return, else advance the packet and test pkt.size > 0
PumpDecode ==
    /\ pc = "decode"
    /\ \E lib \in LibOutcomes(dec_ctx.codec_type, frame_count, pkt.size) :
         LET r == decode_packet(dec_ctx.codec_type, pkt.size, lib, frame_count, written, frame_held)
         IN  /\ got_frame' = IF r.got THEN 1 ELSE 0
             /\ frame_count' = r.fc
             /\ written' = r.wr
             /\ frame_held' = r.held
             /\ decoded' = r.ret
             /\ pkt' = IF r.ret < 0 THEN pkt
                       ELSE [pkt EXCEPT !.off = @ + r.ret, !.size = @ - r.ret]
             /\ pc' = IF PumpContinues(r.ret, pkt.size) THEN "decode" ELSE "free_packet"
             /\ hist' = [hist EXCEPT
                  !.failedPkt = IF r.ret < 0 THEN hist.pktNo ELSE @,
                  !.mismatch = @ \/ ~r.match,
                  !.last = [size |-> pkt.size, reported |-> lib.ret]]
    /\ UNCHANGED << args, iter, ret, exitStatus, usagePrinted, fmt_open, dec_ctx,
                    dec_open, dst_open, frame_alloc, img_alloc, geometry >>

\* line 349: av_free_packet
FreePacket ==
    /\ pc = "free_packet"
    /\ pkt' = EmptyPkt
    /\ pc' = "read"
    /\ UNCHANGED << args, iter, ret, exitStatus, usagePrinted, resources, geometry,
                    got_frame, frame_count, decoded, written, hist >>

\* lines 355-357: one pass of the flush loop: decode_packet on the empty
\* packet, its return value dropped, repeated while got_frame
FlushDecode ==
    /\ pc = "flush"
    /\ \E lib \in LibOutcomes(dec_ctx.codec_type, frame_count, pkt.size) :
         LET r == decode_packet(dec_ctx.codec_type, pkt.size, lib, frame_count, written, frame_held)
         IN  /\ got_frame' = IF r.got THEN 1 ELSE 0
             /\ frame_count' = r.fc
             /\ written' = r.wr
             /\ frame_held' = r.held
             /\ pc' = IF FlushContinues(r.got, r.ret) THEN "flush" ELSE "end"
             /\ hist' = [hist EXCEPT
                  !.mismatch = @ \/ ~r.match,
                  !.flushCalls = 1,
                  !.flushIdle = IF r.got THEN @ ELSE @ + 1,
                  !.flushNeg = (r.ret < 0)]
    /\ UNCHANGED << args, iter, ret, exitStatus, usagePrinted, fmt_open, dec_ctx,
                    dec_open, dst_open, frame_alloc, img_alloc, geometry,
                    pkt, decoded >>

\* a variant of the cleanup that closes the destination file on the success
\* path only
End_keeps_dst_on_error ==
    /\ pc = "end"
    /\ dec_open' = FALSE
    /\ fmt_open' = FALSE
    /\ dst_open' = (dst_open /\ ret # 0)
    /\ frame_alloc' = FALSE
    /\ frame_held' = FALSE
    /\ img_alloc' = FALSE
    /\ pc' = "loop"
    /\ UNCHANGED << args, iter, ret, exitStatus, usagePrinted, dec_ctx,
                    geometry, pump, hist >>

\* lines 361-370: the cleanup at label end, on every path of the iteration
End ==
    /\ pc = "end"
    /\ dec_open' = FALSE
    /\ fmt_open' = FALSE
    /\ dst_open' = FALSE
    /\ frame_alloc' = FALSE
    /\ frame_held' = FALSE
    /\ img_alloc' = FALSE
    /\ pc' = "loop"
    /\ UNCHANGED << args, iter, ret, exitStatus, usagePrinted, dec_ctx,
                    geometry, pump, hist >>

Next ==
    \/ Start
    \/ IterBegin
    \/ Exit
    \/ SetWhitelist
    \/ FindFormat
    \/ OpenInput
    \/ OpenCodec
    \/ OpenDst
    \/ AllocImage
    \/ AllocFrame
    \/ ReadFrame
    \/ PumpDecode
    \/ FreePacket
    \/ FlushDecode
    \/ End

Spec == Init /\ [][Next]_vars

\* ------------------------------------------- open_codec_context in isolation
\* The states right after a successful avformat_open_input, one for every
\* stream table and every codec argument; the one step is open_codec_context
\* with the selected index observed.
InitSel ==
    /\ pc = "open_codec"
    /\ iter = 1
    /\ argc \in {3, 5}
    /\ argv \in IF argc = 5 THEN {"matroska"} \X CodecArgs
                ELSE {<< NULL, NULL >>}
    /\ format = argv[1]
    /\ codec = argv[2]
    /\ ret = 0
    /\ exitStatus = -1
    /\ usagePrinted = FALSE
    /\ fmt_open = TRUE
    /\ dec_ctx = NoCtx
    /\ dec_open = FALSE
    /\ dst_open = FALSE
    /\ frame_alloc = FALSE
    /\ frame_held = FALSE
    /\ img_alloc = FALSE
    /\ width = 0
    /\ height = 0
    /\ pix_fmt = AV_PIX_FMT_NONE
    /\ video_dst_bufsize = 0
    /\ pkt = EmptyPkt
    /\ got_frame = 0
    /\ frame_count = 0
    /\ decoded = 0
    /\ written = 0
    /\ \E ss \in StreamLists :
         hist = [HistInit EXCEPT !.inputOpened = TRUE, !.selIn = ss]

SelectStream == OpenCodecOn(hist.selIn, TRUE)

NextSel == SelectStream

SpecSel == InitSel /\ [][NextSel]_vars

\* ================================================================ properties
IsVideo == dec_ctx.codec_type = "video"
IsAudio == dec_ctx.codec_type = "audio"
\* the iteration is over: the cleanup at label end has run
IterationOver == iter >= 1 /\ pc \in {"loop", "exited"}

\* C1 (as claimed): once a produced video frame has failed the geometry
\* check, the iteration ends with ret = 1 and the process exits with status 1.
C1_MismatchIsFatal ==
    hist.mismatch =>
        /\ (pc = "loop" => ret = 1)
        /\ (pc = "exited" => exitStatus = 1)

\* C2: for a video stream the bytes appended to the destination file are
\* always frame_count times video_dst_bufsize, and every dispatcher call
\* either counts one frame and appends one packed frame (a produced frame of
\* matching geometry) or leaves counter and file alone (a mismatching frame,
\* no frame, a failed call).
C2_Balance == IsVideo => written = frame_count * video_dst_bufsize
C2_Call ==
    (IsVideo /\ pc \in {"decode", "flush"}) =>
        LET failedCall == IF pc = "decode" THEN decoded' < 0 ELSE hist'.flushNeg
        IN  IF got_frame' = 1 /\ ~failedCall
            THEN /\ frame_count' = frame_count + 1
                 /\ written' = written + video_dst_bufsize
            ELSE /\ frame_count' = frame_count
                 /\ written' = written
C2_VideoBytes == [](C2_Balance) /\ [][C2_Call]_vars
\* two frames written and a mismatching frame dropped
C2_Witness ==
    IsVideo /\ frame_count = 2 /\ written = 2 * video_dst_bufsize /\ written > 0
            /\ hist.mismatch

\* C3: for an audio stream, when the decoder reports more bytes consumed than
\* the packet holds, decode_packet returns the packet's size and the advanced
\* packet has exactly 0 bytes left.
C3_AudioClamp ==
    (IsAudio /\ pc \in {"decode", "free_packet"} /\ hist.last.reported > hist.last.size) =>
        /\ decoded = hist.last.size
        /\ pkt.size = 0
        /\ pc = "free_packet"
C3_Witness ==
    /\ IsAudio
    /\ pc = "free_packet"
    /\ hist.last.size > 0
    /\ hist.last.reported > hist.last.size
    /\ decoded = hist.last.size
    /\ pkt.size = 0

\* C4: with an argument count other than 3 or 5 the program only prints the
\* usage text and exits with status 1: no iteration starts, no input and no
\* decoder is opened, the destination file is not touched.
C4_UsageError ==
    (argc # 3 /\ argc # 5) =>
        /\ pc \in {"start", "exited"}
        /\ iter = 0
        /\ ~fmt_open /\ ~dec_open /\ ~dst_open
        /\ ~hist.inputOpened /\ ~hist.decOpened /\ ~hist.dstTouched
        /\ (pc = "exited" => exitStatus = 1 /\ usagePrinted)
C4_Witness == argc = 4 /\ pc = "exited" /\ exitStatus = 1

\* C5: a setup error sets ret to 1 and skips pump and flush; at the end of
\* every iteration, failed or not, container, decoder and destination file
\* are closed and frame and raw image are freed.
C5_SetupErrorCleanup ==
    /\ (iter >= 1 /\ hist.setupErr # "none") =>
          /\ pc \in {"end", "loop", "exited"}
          /\ ret = 1
          /\ (pc = "exited" => exitStatus = 1)
          /\ hist.pktNo = 0 /\ ~hist.eof
          /\ hist.flushPhases = 0 /\ hist.flushCalls = 0
          /\ frame_count = 0 /\ written = 0
    /\ IterationOver =>
          ~fmt_open /\ ~dec_open /\ ~dst_open /\ ~frame_alloc /\ ~img_alloc
\* the last setup step failed, with everything before it opened, and the
\* cleanup has run
C5_Witness ==
    /\ pc = "loop"
    /\ hist.setupErr = "frame"
    /\ hist.inputOpened /\ hist.decOpened /\ hist.dstTouched
    /\ IsVideo

\* C6 (as claimed): once decode_packet has returned < 0 for a packet, the
\* pump makes no further dispatcher call, on that packet or on a later one.
C6_NoDecodeAfterError == pc = "decode" => hist.failedPkt = 0
\* C6 (amended): once decode_packet has returned < 0 for a packet, no
\* further bytes of that packet are passed to the dispatcher: the packet is
\* freed and the pump reads on.
C6_NoMoreOfFailedPacket ==
    /\ pc = "decode" => hist.failedPkt # hist.pktNo
    /\ (pc = "free_packet" /\ decoded < 0) => hist.failedPkt = hist.pktNo
\* a later packet is about to be decoded after an earlier one failed
C6_Witness == pc = "decode" /\ hist.failedPkt # 0 /\ hist.failedPkt < hist.pktNo

\* C7 (as claimed): whenever the latest decode call produced a unit, the
\* frame no longer references it once decode_packet has returned.
C7_FrameReleased == got_frame = 1 => ~frame_held

\* C8: one flush phase per successful setup, entered only after the
\* container reported the end; pump calls get a packet of the container and
\* all precede the empty-packet calls; at least one empty-packet call is
\* made; the phase goes on exactly while the latest call produced a unit,
\* whatever that call returned, and ends at the first call that did not.
C8_OneFlushPhase ==
    /\ hist.flushPhases <= 1
    /\ pc \in {"read", "decode", "free_packet"} =>
          hist.flushPhases = 0 /\ hist.flushCalls = 0 /\ ~hist.eof
    /\ pc = "decode" => pkt.buf
    /\ pc = "flush" =>
          /\ hist.eof /\ hist.flushPhases = 1
          /\ pkt = EmptyPkt
          /\ hist.flushIdle = 0
          /\ (hist.flushCalls = 1 => got_frame = 1)
    /\ (hist.flushCalls = 1 /\ got_frame = 1) => pc = "flush"
    /\ (iter >= 1 /\ hist.setupErr = "none" /\ pc \in {"end", "loop", "exited"}) =>
          /\ hist.eof /\ hist.flushPhases = 1
          /\ hist.flushCalls = 1 /\ hist.flushIdle = 1
          /\ got_frame = 0
\* the flush phase goes on after an empty-packet call that returned < 0
C8_Witness ==
    pc = "flush" /\ hist.flushCalls = 1 /\ hist.flushNeg /\ hist.pktNo = 2

\* C9 (as claimed): the selected stream is the lowest-index stream that has
\* a decoding context and, when a filter is given, whose codec identifier is
\* the one the filter names; when no stream qualifies, the selection fails
\* with "no matching stream" and no decoder is opened.
C9_Qualifies(ss, i) ==
    /\ ss[i].hasCtx
    /\ codec # NULL => \E d \in Decoders : d.name = codec /\ d.id = ss[i].codec_id
C9_Expected(ss) ==
    IF \E i \in 1..Len(ss) : C9_Qualifies(ss, i)
    THEN CHOOSE i \in 1..Len(ss) :
           C9_Qualifies(ss, i) /\ \A j \in 1..(i - 1) : ~C9_Qualifies(ss, j)
    ELSE 0
C9_LowestMatchingStream ==
    pc # "open_codec" =>
        /\ hist.selIdx = C9_Expected(hist.selIn)
        /\ C9_Expected(hist.selIn) = 0 => (hist.selResult = "nostream" /\ ~dec_open)

\* C10 (as claimed): the per-packet loop ends on a decode error or with
\* exactly 0 bytes left in the packet.
C10_PacketLoopEnd == pc = "free_packet" => (decoded < 0 \/ pkt.size = 0)
====
